---------------------------- MODULE Spec2Model ----------------------------
(***************************************************************************)
(* Model of export.py: the conversion of the waypoint block of an STK      *)
(* aircraft file into a MavLink .waypoints file.                           *)
(*                                                                         *)
(* Text is a sequence of symbols.  A symbol is one character ("1", ".",    *)
(* " ", "\n", "\t", ...) or one of the literals the program searches for   *)
(* or writes as a whole: the two block markers and the file header.        *)
(***************************************************************************)
EXTENDS Integers, Sequences, FiniteSets, TLC

(***************************************************************************)
(* The state: the two files, and the run of extract_stk_waypoints.         *)
(***************************************************************************)
VARIABLES
    ac_file,            \* the aircraft file the program is run on
    wp_file,            \* <stem>.waypoints in the current directory
    wp_opens,           \* how often <stem>.waypoints was opened for writing
    pc,                 \* the stage extract_stk_waypoints has reached
    error,              \* the exception that ended the run, "" for none
    block,              \* extract_raw_waypoints: the text between the markers
    raw_waypoints,      \* the locals of extract_stk_waypoints
    trimmed_waypoints,
    waypoints,
    run,                \* the number of the run
    wp_file_before      \* <stem>.waypoints as the run found it

vars == <<ac_file, wp_file, wp_opens, pc, error, block, raw_waypoints,
          trimmed_waypoints, waypoints, run, wp_file_before>>

(***************************************************************************)
(* Symbols                                                                 *)
(***************************************************************************)
BeginMarker == "BEGIN Waypoints"
EndMarker == "END Waypoints"
HeaderText == "QGC WPL 0"
NL == "\n"
SP == " "
TAB == "\t"
Whitespace == {SP, NL, TAB}
DigitChars == <<"0", "1", "2", "3", "4", "5", "6", "7", "8", "9">>
DigitSet == {DigitChars[i] : i \in 1..Len(DigitChars)}
DigitVal(c) == (CHOOSE i \in 1..Len(DigitChars) : DigitChars[i] = c) - 1

(***************************************************************************)
(* Python str operations                                                   *)
(***************************************************************************)
Positions(s, sym) == {i \in 1..Len(s) : s[i] = sym}
Min(S) == CHOOSE x \in S : \A y \in S : x <= y
Max(S) == CHOOSE x \in S : \A y \in S : x >= y

\* str.split(sep): the pieces between the occurrences of sep, always at
\* least one piece.
RECURSIVE StrSplit(_, _)
StrSplit(s, sep) ==
    IF Positions(s, sep) = {} THEN <<s>>
    ELSE LET p == Min(Positions(s, sep))
         IN  <<SubSeq(s, 1, p - 1)>> \o StrSplit(SubSeq(s, p + 1, Len(s)), sep)

\* str.strip(): leading and trailing whitespace removed.
StrStrip(s) ==
    LET keep == {i \in 1..Len(s) : s[i] \notin Whitespace}
    IN  IF keep = {} THEN <<>> ELSE SubSeq(s, Min(keep), Max(keep))

\* str.splitlines(): the lines of s; no empty last line after a final
\* newline, and no line at all for the empty string.
RECURSIVE StrSplitLines(_)
StrSplitLines(s) ==
    IF s = <<>> THEN <<>>
    ELSE IF Positions(s, NL) = {} THEN <<s>>
    ELSE LET p == Min(Positions(s, NL))
         IN  <<SubSeq(s, 1, p - 1)>> \o StrSplitLines(SubSeq(s, p + 1, Len(s)))

\* filter(None, seq): the non-empty items, in order.
RECURSIVE FilterNone(_)
FilterNone(items) ==
    IF items = <<>> THEN <<>>
    ELSE IF Head(items) = <<>> THEN FilterNone(Tail(items))
    ELSE <<Head(items)>> \o FilterNone(Tail(items))

\* sep.join(items)
RECURSIVE StrJoin(_, _)
StrJoin(sep, items) ==
    IF items = <<>> THEN <<>>
    ELSE IF Len(items) = 1 THEN items[1]
    ELSE items[1] \o sep \o StrJoin(sep, Tail(items))

(***************************************************************************)
(* Cell values.  A cell of a dataframe is an int, a float or NaN.  A       *)
(* finite float is (-1)^neg * mant / 10^exp with no trailing zero in the   *)
(* fraction, so that equal numbers are equal records.                      *)
(***************************************************************************)
RECURSIVE Pow10(_)
Pow10(n) == IF n = 0 THEN 1 ELSE 10 * Pow10(n - 1)

IntCell(n) == [kind |-> "int", neg |-> n < 0, mant |-> IF n < 0 THEN -n ELSE n, exp |-> 0]
NaN == [kind |-> "nan", neg |-> FALSE, mant |-> 0, exp |-> 0]
ValueError == [kind |-> "ValueError", neg |-> FALSE, mant |-> 0, exp |-> 0]

RECURSIVE Normalise(_, _, _)
Normalise(neg, mant, exp) ==
    IF exp > 0 /\ mant % 10 = 0 THEN Normalise(neg, mant \div 10, exp - 1)
    ELSE [kind |-> "float", neg |-> neg, mant |-> mant, exp |-> exp]

RECURSIVE DigitsValue(_)
DigitsValue(ds) ==
    IF ds = <<>> THEN 0
    ELSE 10 * DigitsValue(SubSeq(ds, 1, Len(ds) - 1)) + DigitVal(ds[Len(ds)])

IsDigits(s) == \A i \in 1..Len(s) : s[i] \in DigitSet

\* The decimal part of a float literal: digits with at most one point and at
\* least one digit.
IsDecimal(s) ==
    /\ \A i \in 1..Len(s) : s[i] \in DigitSet \cup {"."}
    /\ Cardinality(Positions(s, ".")) <= 1
    /\ \E i \in 1..Len(s) : s[i] \in DigitSet

\* float(s) of Python: surrounding whitespace is ignored; an optional sign, a
\* decimal and an optional exponent; anything else is a ValueError.  (The
\* spellings inf, nan and digits grouped by "_" are not among the model's
\* tokens.  The tokens have far fewer than 15 significant digits, the range
\* in which a decimal, the double nearest to it and the repr of that double
\* are the same number, so the value is kept as the decimal.)
ParseFloat(tok) ==
    LET s == StrStrip(tok)
        signed == s # <<>> /\ s[1] \in {"-", "+"}
        neg == s # <<>> /\ s[1] = "-"
        u == IF signed THEN Tail(s) ELSE s
        es == Positions(u, "e")
        m == IF es = {} THEN u ELSE SubSeq(u, 1, Min(es) - 1)
        x == IF es = {} THEN <<>> ELSE SubSeq(u, Min(es) + 1, Len(u))
        xsigned == x # <<>> /\ x[1] \in {"-", "+"}
        xneg == x # <<>> /\ x[1] = "-"
        xd == IF xsigned THEN Tail(x) ELSE x
        ok == /\ IsDecimal(m)
              /\ es # {} => (xd # <<>> /\ IsDigits(xd))
        dot == Positions(m, ".")
        ip == IF dot = {} THEN m ELSE SubSeq(m, 1, Min(dot) - 1)
        fp == IF dot = {} THEN <<>> ELSE SubSeq(m, Min(dot) + 1, Len(m))
        e10 == IF es = {} THEN 0 ELSE IF xneg THEN -DigitsValue(xd) ELSE DigitsValue(xd)
        mant == DigitsValue(ip \o fp)
        exp == Len(fp) - e10
    IN  IF ~ok THEN ValueError
        ELSE IF exp >= 0 THEN Normalise(neg, mant, exp)
        ELSE Normalise(neg, mant * Pow10(-exp), 0)

RECURSIVE NatStr(_)
NatStr(n) ==
    IF n < 10 THEN <<DigitChars[n + 1]>>
    ELSE NatStr(n \div 10) \o <<DigitChars[(n % 10) + 1]>>

RECURSIVE Zeros(_)
Zeros(n) == IF n <= 0 THEN <<>> ELSE <<"0">> \o Zeros(n - 1)

\* repr of a float (str(float) is its repr): the shortest decimal that reads
\* back as the same number; positional from 1e-4 on (and for zero), with an
\* exponent below.  (The exponent form of 1e16 and above is out of the reach
\* of the model's integers.)
FloatStr(v) ==
    LET sign == IF v.neg THEN <<"-">> ELSE <<>>
        ds == NatStr(v.mant)
        p == Pow10(v.exp)
        frac == NatStr(v.mant % p)
        \* decimal exponent of the leading digit
        e10 == Len(ds) - 1 - v.exp
    IN  IF v.kind = "nan" THEN <<"n", "a", "n">>
        ELSE IF v.mant # 0 /\ e10 < -4 THEN
            sign \o <<ds[1]>>
                 \o (IF Len(ds) > 1 THEN <<".">> \o Tail(ds) ELSE <<>>)
                 \o <<"e", "-">> \o Zeros(2 - Len(NatStr(-e10))) \o NatStr(-e10)
        ELSE IF v.exp = 0 THEN sign \o ds \o <<".", "0">>
        ELSE sign \o NatStr(v.mant \div p) \o <<".">>
                  \o Zeros(v.exp - Len(frac)) \o frac

\* str(x) of a cell: an int prints its digits, a float its repr.
CellStr(v) ==
    IF v.kind = "int" THEN (IF v.neg THEN <<"-">> ELSE <<>>) \o NatStr(v.mant)
    ELSE FloatStr(v)

(***************************************************************************)
(* pandas dataframes: the column labels in order, and the rows, each a     *)
(* sequence of cells aligned with the labels.                              *)
(***************************************************************************)
Frame(columns, data) == [columns |-> columns, data |-> data]
NoFrame == Frame(<<>>, <<>>)
ColumnPos(columns, name) == Min(Positions(columns, name))
NaNs(n) == [i \in 1..n |-> NaN]

\* DataFrame.from_records(records, columns=columns) of a list of lists.  The
\* rows are laid into an array as wide as the longest of them, a shorter row
\* padded with None (which reads as NaN in a column of floats); the width
\* must then be the number of labels.  No rows: an empty frame.
FromRecordsWidth(records) ==
    IF records = <<>> THEN 0 ELSE Max({Len(records[i]) : i \in 1..Len(records)})
FromRecordsOk(records, columns) ==
    records = <<>> \/ FromRecordsWidth(records) = Len(columns)
FromRecords(records, columns) ==
    Frame(columns,
          [i \in 1..Len(records) |->
              records[i] \o NaNs(Len(columns) - Len(records[i]))])

\* df[[labels]]: a new frame of the named columns, in the order asked.
SelectColumns(df, labels) ==
    Frame(labels,
          [i \in 1..Len(df.data) |->
              [j \in 1..Len(labels) |-> df.data[i][ColumnPos(df.columns, labels[j])]]])

\* The sequence s with x put before its item number loc, counted from 0.
InsertAt(s, loc, x) == SubSeq(s, 1, loc) \o <<x>> \o SubSeq(s, loc + 1, Len(s))

\* df.insert(loc, column, value, allow_duplicates): the frame itself gets the
\* column at position loc, counted from 0; loc may be at most the number of
\* columns.
InsertOk(df, loc) == loc >= 0 /\ loc <= Len(df.columns)
InsertColumn(df, loc, column, value) ==
    Frame(InsertAt(df.columns, loc, column),
          [i \in 1..Len(df.data) |-> InsertAt(df.data[i], loc, value[i])])

\* The labels of several frames in order of first appearance.
RECURSIVE Unique(_)
Unique(s) ==
    IF s = <<>> THEN <<>>
    ELSE LET r == Unique(SubSeq(s, 1, Len(s) - 1))
         IN  IF Positions(r, s[Len(s)]) # {} THEN r ELSE Append(r, s[Len(s)])

\* The rows of df laid out under the labels columns, NaN where df has no
\* such column.
Reindex(df, columns) ==
    [i \in 1..Len(df.data) |->
        [j \in 1..Len(columns) |->
            IF Positions(df.columns, columns[j]) = {} THEN NaN
            ELSE df.data[i][ColumnPos(df.columns, columns[j])]]]

\* Mutants of Concat: the rows of b put under a's labels by position; and
\* the two frames in the other order.
ConcatByPosition(a, b) == Frame(a.columns, a.data \o b.data)
ConcatHomeLast(a, b) ==
    LET columns == Unique(a.columns \o b.columns)
    IN  Frame(columns, Reindex(b, columns) \o Reindex(a, columns))

\* pd.concat([a, b], ignore_index=True): the rows of a, then those of b,
\* matched by column label; the labels are taken in order of appearance
\* (sort=False, the default since pandas 1.0) and the rows renumbered from 0.
Concat(a, b) ==
    LET columns == Unique(a.columns \o b.columns)
    IN  Frame(columns, Reindex(a, columns) \o Reindex(b, columns))

(***************************************************************************)
(* extract_raw_waypoints                                                   *)
(***************************************************************************)
stk_column_names ==
    <<"Time [sec]", "Lat [deg]", "Long [deg]", "Alt [m]",
      "Speed [m/s]", "Accel [m/s/s]", "TurnRadius [m]">>

\* The text between the markers, as the two splits find it:
\* split(BEGIN)[1], then split(END)[0].
HasBlock(ac_data) == Len(StrSplit(ac_data, BeginMarker)) >= 2
BlockText(ac_data) == StrSplit(StrSplit(ac_data, BeginMarker)[2], EndMarker)[1]

\* The waypoint strings: strip, then splitlines.
RawLines(ac_data) == StrSplitLines(StrStrip(BlockText(ac_data)))

\* list(map(float, filter(None, wp.split(' '))))
LineFloats(wp) ==
    LET toks == FilterNone(StrSplit(wp, SP))
    IN  [j \in 1..Len(toks) |-> ParseFloat(toks[j])]
WaypointLists(ac_data) ==
    LET raw == RawLines(ac_data) IN [i \in 1..Len(raw) |-> LineFloats(raw[i])]

\* Mutant of ExtractError: a token that is no number is let through.
ExtractErrorNoFloatCheck(ac_data) ==
    IF ~HasBlock(ac_data) THEN "IndexError"
    ELSE IF ~FromRecordsOk(WaypointLists(ac_data), stk_column_names) THEN "ValueError"
    ELSE ""

\* What extract_raw_waypoints raises, "" when it returns.
ExtractError(ac_data) ==
    IF ~HasBlock(ac_data) THEN "IndexError"
    ELSE LET wps == WaypointLists(ac_data)
         IN  IF \E i \in 1..Len(wps) : \E j \in 1..Len(wps[i]) : wps[i][j] = ValueError
             THEN "ValueError"
             ELSE IF ~FromRecordsOk(wps, stk_column_names) THEN "ValueError"
             ELSE ""
ExtractRawWaypoints(ac_data) == FromRecords(WaypointLists(ac_data), stk_column_names)

(***************************************************************************)
(* filter_raw_waypoints                                                    *)
(***************************************************************************)
extract_headers == <<"Lat [deg]", "Long [deg]", "Alt [m]">>
FilterRawWaypoints(raw) == SelectColumns(raw, extract_headers)

(***************************************************************************)
(* create_mavlink_waypoints                                                *)
(***************************************************************************)
\* The dict display of default_columns, item by item as written.
default_columns_items ==
    << <<"Current WP", IntCell(0)>>, <<"Coord Frame", IntCell(3)>>,
       <<"Command", IntCell(16)>>, <<"Param 1", IntCell(0)>>,
       <<"Param 2", IntCell(0)>>, <<"Param 3", IntCell(0)>>,
       <<"Param 4", IntCell(0)>>, <<"None", NaN>>, <<"None", NaN>>,
       <<"None", NaN>>, <<"AutoContinue", IntCell(1)>> >>

\* Mutant of DictKeys: every key of the display counts, a repeated one too.
DictKeysRepeated(items) == [i \in 1..Len(items) |-> items[i][1]]

\* A dict keeps one entry per key, at the place the key first came in, with
\* the value given last.
DictKeys(items) == Unique([i \in 1..Len(items) |-> items[i][1]])
DictGet(items, key) ==
    items[Max({i \in 1..Len(items) : items[i][1] = key})][2]
default_columns == DictKeys(default_columns_items)

\* The loop over enumerate(default_columns), from entry number n (counted
\* from 1; col_num is n - 1) on: a key that is not None is inserted into the
\* frame at col_num.
RECURSIVE InsertDefaults(_, _)
InsertDefaults(df, n) ==
    IF n > Len(default_columns) THEN df
    ELSE IF default_columns[n] = "None" THEN InsertDefaults(df, n + 1)
    ELSE InsertDefaults(
            InsertColumn(df, n - 1, default_columns[n],
                [i \in 1..Len(df.data) |->
                    DictGet(default_columns_items, default_columns[n])]),
            n + 1)
RECURSIVE InsertDefaultsOk(_, _)
InsertDefaultsOk(df, n) ==
    IF n > Len(default_columns) THEN TRUE
    ELSE IF default_columns[n] = "None" THEN InsertDefaultsOk(df, n + 1)
    ELSE /\ InsertOk(df, n - 1)
         /\ InsertDefaultsOk(
                InsertColumn(df, n - 1, default_columns[n], NaNs(Len(df.data))),
                n + 1)

Float0 == [kind |-> "float", neg |-> FALSE, mant |-> 0, exp |-> 0]
initial_header ==
    << <<"Current WP", IntCell(1)>>, <<"Coord Frame", IntCell(0)>>,
       <<"Command", IntCell(0)>>, <<"Param 1", IntCell(0)>>,
       <<"Param 2", IntCell(0)>>, <<"Param 3", IntCell(0)>>,
       <<"Param 4", IntCell(0)>>, <<"Lat [deg]", Float0>>,
       <<"Long [deg]", Float0>>, <<"Alt [m]", Float0>>,
       <<"AutoContinue", IntCell(1)>> >>

\* pd.DataFrame([initial_header], dtype=object): one row, the dict's keys
\* as labels.
InitialFrame ==
    Frame(DictKeys(initial_header),
          << [j \in 1..Len(DictKeys(initial_header)) |->
                DictGet(initial_header, DictKeys(initial_header)[j])] >>)

\* The frame the argument has become when the function returns, and the
\* frame it returns.
MavlinkArgAfter(trimmed) == InsertDefaults(trimmed, 1)
CreateMavlinkWaypoints(trimmed) == Concat(InitialFrame, MavlinkArgAfter(trimmed))

(***************************************************************************)
(* create_waypoint_file                                                    *)
(***************************************************************************)
wpfile_header == <<HeaderText, NL>>

\* Mutant of WaypointLine: the index counted from 1.
WaypointLineOneBased(wp_index, row) ==
    StrJoin(<<TAB>>, <<NatStr(wp_index + 1)>> \o [j \in 1..Len(row) |-> CellStr(row[j])])
        \o <<NL>>

\* One line of the file: the index, then the row's cells as strings, joined
\* by tabs, and a newline.
WaypointLine(wp_index, row) ==
    StrJoin(<<TAB>>, <<NatStr(wp_index)>> \o [j \in 1..Len(row) |-> CellStr(row[j])])
        \o <<NL>>

RECURSIVE WaypointLines(_, _)
WaypointLines(data, n) ==
    IF n > Len(data) THEN <<>>
    ELSE WaypointLine(n - 1, data[n]) \o WaypointLines(data, n + 1)

\* Mutant of WaypointFileText: the file opened with 'a', what it held kept.
WaypointFileAppended(wps) == wp_file.text \o wpfile_header \o WaypointLines(wps.data, 1)

\* What the file holds when create_waypoint_file returns: opened with 'w',
\* it is emptied first.
WaypointFileText(wps) == wpfile_header \o WaypointLines(wps.data, 1)

(***************************************************************************)
(* The aircraft files the program is run on.  A file is described by the   *)
(* arrangement of its markers and by the lines of its waypoint block; a    *)
(* line by its tokens, the number of spaces between two tokens and the     *)
(* number of spaces before the first.  FileText is the text of the file.   *)
(***************************************************************************)
MaxLines == 3

Line(toks, gap, pad) == [toks |-> toks, gap |-> gap, pad |-> pad]
\* 0.0 10.0 20.0 100.0 5.0 0.0 50.0
LineA ==
    Line(<< <<"0", ".", "0">>, <<"1", "0", ".", "0">>, <<"2", "0", ".", "0">>,
            <<"1", "0", "0", ".", "0">>, <<"5", ".", "0">>, <<"0", ".", "0">>,
            <<"5", "0", ".", "0">> >>, 1, 0)
\* 1  -7  .00001  08  4  0  5   (two spaces between the tokens)
LineB ==
    Line(<< <<"1">>, <<"-", "7">>, <<".", "0", "0", "0", "0", "1">>, <<"0", "8">>,
            <<"4">>, <<"0">>, <<"5">> >>, 2, 1)
\* six tokens, eight tokens, a token that is no number
LineShort ==
    Line(<< <<"2">>, <<"3", "1">>, <<"3", "2">>, <<"3", "3">>, <<"4">>, <<"0">> >>, 1, 0)
LineLong ==
    Line(<< <<"3">>, <<"4", "1">>, <<"4", "2">>, <<"4", "3">>, <<"4">>, <<"0">>,
            <<"5">>, <<"6">> >>, 1, 0)
LineJunk ==
    Line(<< <<"4">>, <<"5", "1">>, <<"x">>, <<"5", "3">>, <<"4">>, <<"0">>, <<"5">> >>, 1, 0)
\* an empty line, and a line of two spaces
LineEmpty == Line(<<>>, 1, 0)
LineSpaces == Line(<<>>, 1, 2)
Lines == {LineA, LineB, LineShort, LineLong, LineJunk, LineEmpty, LineSpaces}

Layouts == {"plain", "noend", "nobegin", "endfirst", "twobegin", "twoblocks"}

RECURSIVE Spaces(_)
Spaces(n) == IF n <= 0 THEN <<>> ELSE <<SP>> \o Spaces(n - 1)
LineText(l) == Spaces(l.pad) \o StrJoin(Spaces(l.gap), l.toks)
BodyText(body) == StrJoin(<<NL>>, [i \in 1..Len(body) |-> LineText(body[i])])

FileText(f) ==
    LET b == BodyText(f.body) \o <<NL>>
        a == LineText(LineA) \o <<NL>>
    IN  CASE f.layout = "plain" ->
                <<"x", NL, BeginMarker, NL>> \o b \o <<EndMarker, NL, "x", NL>>
          [] f.layout = "noend" -> <<"x", NL, BeginMarker, NL>> \o b
          [] f.layout = "nobegin" -> <<"x", NL>> \o b \o <<EndMarker, NL>>
          [] f.layout = "endfirst" ->
                <<EndMarker, NL, BeginMarker, NL>> \o b \o <<EndMarker, NL>>
          [] f.layout = "twobegin" ->
                <<BeginMarker, NL>> \o b \o <<BeginMarker, NL>> \o a \o <<EndMarker, NL>>
          [] f.layout = "twoblocks" ->
                <<BeginMarker, NL>> \o b \o <<EndMarker, NL, BeginMarker, NL>>
                    \o a \o <<EndMarker, NL>>

Bodies == UNION {[1..n -> Lines] : n \in 0..MaxLines}
AcFiles == [layout : Layouts, body : Bodies]

(***************************************************************************)
(* The run of extract_stk_waypoints, stage by stage, and its rerun.        *)
(***************************************************************************)
MaxRuns == 2

NoFile == [exists |-> FALSE, text |-> <<>>]
OldFile == [exists |-> TRUE, text |-> <<"o", "l", "d", NL>>]

Init ==
    /\ ac_file \in AcFiles
    /\ wp_file \in {NoFile, OldFile}
    /\ wp_file_before = wp_file
    /\ wp_opens = 0
    /\ pc = "start"
    /\ error = ""
    /\ block = <<>>
    /\ raw_waypoints = NoFrame
    /\ trimmed_waypoints = NoFrame
    /\ waypoints = NoFrame
    /\ run = 1

\* raw_waypoints = extract_raw_waypoints(ac_file)
Extract ==
    /\ pc = "start"
    /\ LET ac_data == FileText(ac_file)
           err == ExtractError(ac_data)
       IN  /\ error' = err
           /\ pc' = IF err = "" THEN "extracted" ELSE "failed"
           /\ block' = IF HasBlock(ac_data) THEN BlockText(ac_data) ELSE <<>>
           /\ raw_waypoints' = IF err = "" THEN ExtractRawWaypoints(ac_data) ELSE NoFrame
    /\ UNCHANGED <<ac_file, wp_file, wp_opens, trimmed_waypoints, waypoints, run,
                   wp_file_before>>

\* trimmed_waypoints = filter_raw_waypoints(raw_waypoints)
Filter ==
    /\ pc = "extracted"
    /\ trimmed_waypoints' = FilterRawWaypoints(raw_waypoints)
    /\ pc' = "filtered"
    /\ UNCHANGED <<ac_file, wp_file, wp_opens, error, block, raw_waypoints, waypoints,
                   run, wp_file_before>>

\* waypoints = create_mavlink_waypoints(trimmed_waypoints): the inserts act
\* on the caller's frame.
CreateMavlink ==
    /\ pc = "filtered"
    /\ IF InsertDefaultsOk(trimmed_waypoints, 1)
       THEN /\ trimmed_waypoints' = MavlinkArgAfter(trimmed_waypoints)
            /\ waypoints' = CreateMavlinkWaypoints(trimmed_waypoints)
            /\ pc' = "converted"
            /\ error' = error
       ELSE /\ pc' = "failed"
            /\ error' = "IndexError"
            /\ UNCHANGED <<trimmed_waypoints, waypoints>>
    /\ UNCHANGED <<ac_file, wp_file, wp_opens, block, raw_waypoints, run, wp_file_before>>

\* create_waypoint_file(waypoints, ac_name)
CreateFile ==
    /\ pc = "converted"
    /\ wp_opens' = wp_opens + 1
    /\ wp_file' = [exists |-> TRUE, text |-> WaypointFileText(waypoints)]
    /\ pc' = "done"
    /\ UNCHANGED <<ac_file, error, block, raw_waypoints, trimmed_waypoints, waypoints,
                   run, wp_file_before>>

\* The program is started again on the same file: nothing but the files is
\* carried over.
Rerun ==
    /\ pc \in {"done", "failed"}
    /\ run < MaxRuns
    /\ run' = run + 1
    /\ wp_file_before' = wp_file
    /\ pc' = "start"
    /\ error' = ""
    /\ block' = <<>>
    /\ raw_waypoints' = NoFrame
    /\ trimmed_waypoints' = NoFrame
    /\ waypoints' = NoFrame
    /\ UNCHANGED <<ac_file, wp_file, wp_opens>>

Next == Extract \/ Filter \/ CreateMavlink \/ CreateFile \/ Rerun

Spec == Init /\ [][Next]_vars

(***************************************************************************)
(* What the claims speak of: the kinds of input, and the written file      *)
(* read back as lines and tab-separated fields.                            *)
(***************************************************************************)
SevenNumberLines == {LineA, LineB}
BlankLines == {LineEmpty, LineSpaces}
AllLinesIn(f, S) == \A i \in 1..Len(f.body) : f.body[i] \in S
WellFormed(f) == f.layout = "plain" /\ AllLinesIn(f, SevenNumberLines)
NumWaypoints(f) == Cardinality({i \in 1..Len(f.body) : f.body[i] \in SevenNumberLines})

OutLines == StrSplitLines(wp_file.text)
Fields(line) == StrSplit(line, TAB)
HomeRow ==
    StrJoin(<<TAB>>,
        << <<"0">>, <<"1">>, <<"0">>, <<"0">>, <<"0">>, <<"0">>, <<"0">>, <<"0">>,
           <<"0", ".", "0">>, <<"0", ".", "0">>, <<"0", ".", "0">>, <<"1">> >>)
PastExtraction == pc \in {"extracted", "filtered", "converted", "done"}
Untouched == wp_opens = 0 /\ wp_file = wp_file_before /\ wp_file \in {NoFile, OldFile}

\* C1: for a well-formed input of N waypoint lines, row i (1 <= i <= N) of
\* the written file has 12 tab-separated fields in this order: the index i,
\* 0, 3, 16, 0, 0, 0, 0, then the latitude, longitude and altitude, equal as
\* numbers to the 2nd, 3rd and 4th field of input line i-1, then 1.
C1_RowFields ==
    (pc = "done" /\ WellFormed(ac_file)) =>
        /\ Len(OutLines) = Len(ac_file.body) + 2
        /\ \A i \in 1..Len(ac_file.body) :
            LET f == Fields(OutLines[i + 2])
                t == ac_file.body[i].toks
            IN  /\ Len(f) = 12
                /\ f[1] = NatStr(i)
                /\ SubSeq(f, 2, 8) =
                      << <<"0">>, <<"3">>, <<"1", "6">>, <<"0">>, <<"0">>, <<"0">>, <<"0">> >>
                /\ \A k \in 1..3 :
                      /\ ParseFloat(f[8 + k]).kind = "float"
                      /\ ParseFloat(f[8 + k]) = ParseFloat(t[1 + k])
                /\ f[12] = <<"1">>
C1_Witness ==
    /\ pc = "done" /\ WellFormed(ac_file)
    /\ Len(ac_file.body) >= 2 /\ ac_file.body[1] = LineA /\ ac_file.body[2] = LineB
    /\ Fields(OutLines[4])[10] = <<"1", "e", "-", "0", "5">>

\* C2: whenever the run succeeds, the line after the header 'QGC WPL 0' is
\* exactly the home record 0 1 0 0 0 0 0 0 0.0 0.0 0.0 1, whatever the input
\* waypoints are (an empty block included).
C2_HomeRow ==
    pc = "done" =>
        /\ Len(OutLines) >= 2
        /\ OutLines[1] = <<HeaderText>>
        /\ OutLines[2] = HomeRow
C2_Witness ==
    /\ pc = "done" /\ ac_file.layout = "plain"
    /\ Len(ac_file.body) >= 1 /\ ac_file.body[1] = LineB
    /\ OutLines[2] = HomeRow

\* C3: for a well-formed input of N waypoint lines the written file has
\* exactly N+2 lines, the header and N+1 records, and the records' leading
\* fields are 0, 1, ..., N in order.
C3_LineCount ==
    (pc = "done" /\ WellFormed(ac_file)) =>
        LET n == Len(ac_file.body) IN
        /\ Cardinality(Positions(wp_file.text, NL)) = n + 2
        /\ wp_file.text[Len(wp_file.text)] = NL
        /\ Len(OutLines) = n + 2
        /\ OutLines[1] = <<HeaderText>>
        /\ \A k \in 0..n :
              /\ IsDigits(Fields(OutLines[k + 2])[1])
              /\ Fields(OutLines[k + 2])[1] = NatStr(k)
C3_Witness ==
    /\ pc = "done" /\ WellFormed(ac_file)
    /\ Len(ac_file.body) >= 2
    /\ Len(OutLines) = Len(ac_file.body) + 2

\* C4: an input with the start marker and no end marker after it fails in
\* extraction and no output file is produced, whatever follows the start
\* marker.
C4_MissingEndFails ==
    ac_file.layout = "noend" => (~PastExtraction /\ Untouched)

\* C5: an input with a line of 6 or of 8 numeric tokens between the markers
\* fails in extraction and no output file is produced, whatever the other
\* lines hold.
C5_WrongCountFails ==
    (/\ ac_file.layout = "plain"
     /\ \E i \in 1..Len(ac_file.body) : ac_file.body[i] \in {LineShort, LineLong})
        => (~PastExtraction /\ Untouched)

\* C6: running the program a second time on a well-formed input leaves in
\* <stem>.waypoints exactly the bytes the first run left there.
C6_RerunSameFile ==
    (pc = "done" /\ run >= 2 /\ WellFormed(ac_file)) =>
        (wp_file.exists /\ wp_file = wp_file_before)
C6_Witness ==
    /\ pc = "done" /\ run = 2 /\ WellFormed(ac_file)
    /\ Len(ac_file.body) >= 1
    /\ wp_file = wp_file_before
    /\ wp_opens = 2

\* C7: when extraction fails (no start marker, or a token between the
\* markers that is no number, after however many good lines), the run ends
\* there: projector, schema adapter and serializer never run, the output
\* path is never opened for writing and a file already there is unchanged.
ExtractionFails(f) ==
    \/ f.layout = "nobegin"
    \/ \E i \in 1..Len(f.body) : f.body[i] = LineJunk
C7_FailureStops ==
    ExtractionFails(ac_file) =>
        /\ pc \in {"start", "failed"}
        /\ pc = "failed" => error \in {"IndexError", "ValueError"}
        /\ raw_waypoints = NoFrame
        /\ trimmed_waypoints = NoFrame
        /\ waypoints = NoFrame
        /\ Untouched
C7_Witness ==
    /\ pc = "failed" /\ error = "ValueError"
    /\ ac_file.layout = "plain"
    /\ Len(ac_file.body) >= 2 /\ ac_file.body[1] = LineA /\ ac_file.body[2] = LineJunk
    /\ wp_file = OldFile

\* C8 (as claimed): no stage modifies what it received: create_mavlink_waypoints
\* leaves the caller's trimmed_waypoints as it was (three columns, same
\* rows), and raw_waypoints is left as it was by the filter and by the later
\* stages.
C8_NoStageModifiesInput ==
    [][/\ (pc = "filtered" /\ pc' = "converted")
            => trimmed_waypoints' = trimmed_waypoints
       /\ (pc \in {"extracted", "filtered", "converted"} /\ pc' # "failed")
            => raw_waypoints' = raw_waypoints]_vars

\* C8 (amended): raw_waypoints keeps its 7 columns and its rows through the
\* filter and the later stages, and the serializer modifies neither frame;
\* but create_mavlink_waypoints inserts the 8 default columns into the frame
\* it was given: when it returns, the caller's trimmed_waypoints has the 11
\* columns Current WP, Coord Frame, Command, Param 1-4, Lat, AutoContinue,
\* Long, Alt, the inserted cells holding the defaults and the latitude,
\* longitude and altitude cells of every row as before.
MutatedColumns ==
    <<"Current WP", "Coord Frame", "Command", "Param 1", "Param 2", "Param 3",
      "Param 4", "Lat [deg]", "AutoContinue", "Long [deg]", "Alt [m]">>
C8_ArgumentMutated ==
    [][/\ (pc \in {"extracted", "filtered", "converted"} /\ pc' # "failed")
            => /\ raw_waypoints' = raw_waypoints
               /\ raw_waypoints.columns = stk_column_names
       /\ (pc = "filtered" /\ pc' = "converted")
            => /\ trimmed_waypoints.columns = extract_headers
               /\ trimmed_waypoints'.columns = MutatedColumns
               /\ Len(trimmed_waypoints'.data) = Len(trimmed_waypoints.data)
               /\ Reindex(trimmed_waypoints', extract_headers) = trimmed_waypoints.data
               /\ \A i \in 1..Len(trimmed_waypoints'.data) :
                     Reindex(trimmed_waypoints', SubSeq(MutatedColumns, 1, 7) \o <<"AutoContinue">>)[i]
                        = <<IntCell(0), IntCell(3), IntCell(16), IntCell(0), IntCell(0),
                            IntCell(0), IntCell(0), IntCell(1)>>
       /\ (pc = "converted" /\ pc' = "done")
            => /\ trimmed_waypoints' = trimmed_waypoints
               /\ waypoints' = waypoints]_vars
C8_Witness ==
    /\ pc = "converted"
    /\ Len(trimmed_waypoints.data) >= 2
    /\ trimmed_waypoints.columns = MutatedColumns
    /\ raw_waypoints.columns = stk_column_names

\* C9: blank lines in the block are no waypoints: with N lines of 7 numbers
\* and empty or whitespace-only lines between them, extraction returns
\* exactly N records and the file has N+1 record lines.
C9_BlankLinesSkipped ==
    (/\ ac_file.layout = "plain"
     /\ Len(ac_file.body) >= 1
     /\ AllLinesIn(ac_file, SevenNumberLines \cup BlankLines)
     /\ ac_file.body[1] \in SevenNumberLines
     /\ ac_file.body[Len(ac_file.body)] \in SevenNumberLines)
        => /\ pc # "failed"
           /\ PastExtraction => Len(raw_waypoints.data) = NumWaypoints(ac_file)
           /\ pc = "done" => Len(OutLines) = NumWaypoints(ac_file) + 2

\* C10: whatever the arrangement of the markers, the text parsed into
\* records is exactly the text between the first start marker and the first
\* end marker after it.
FirstBegin(t) == Min(Positions(t, BeginMarker))
EndsAfterBegin(t) == {j \in Positions(t, EndMarker) : j > FirstBegin(t)}
C10_BlockIsBeginToEnd ==
    LET t == FileText(ac_file) IN
    (/\ pc # "start"
     /\ Positions(t, BeginMarker) # {}
     /\ EndsAfterBegin(t) # {})
        => block = SubSeq(t, FirstBegin(t) + 1, Min(EndsAfterBegin(t)) - 1)

=============================================================================
